---- MODULE Spec2Model ----
(***************************************************************************)
(* Timetable backend (apps/studies): the persisted SubjectSchedule rows,   *)
(* the assignment API, the conflict validators and the schedule generator. *)
(***************************************************************************)
EXTENDS Integers, Sequences, FiniteSets, TLC

(***************************************************************************)
(* Bounds of the model.                                                    *)
(***************************************************************************)
NumDays == 2
NumSlots == 2
NumSubjects == 3
NumGroups == 2
NumTeachers == 1
\* state-changing requests explored in one behaviour
MaxOps == 2

(***************************************************************************)
(* Domain catalog: read-only reference data of a run.                      *)
(***************************************************************************)
DayIds == 1..NumDays
SlotIds == 1..NumSlots
SubjectIds == 1..NumSubjects
GroupIds == 1..NumGroups
TeacherIds == 1..NumTeachers

\* EvenOddBoth (choices.py)
EVEN == "EVEN"
ODD == "ODD"
BOTH == "BOTH"
EvenOddBoth == {EVEN, ODD, BOTH}

\* an id that no StudyGroups / Subjects row has
UnknownGroupId == NumGroups + 1
UnknownSubjectId == NumSubjects + 1

\* TimeSlot.start_time in minutes after midnight, by TimeSlot.number
SlotStartTimes == <<480, 580, 690, 810, 910, 1010>>
StartTime(slot) == SlotStartTimes[slot]

\* Subjects.audience: subjects 1 and 2 share room 1, subjects 3 and 4 room 2
Audience(subject) == (subject + 1) \div 2

\* Subjects.groups (many-to-many on Subjects itself): the subjects are dealt
\* out to the groups in turn
SubjectGroups(subject) == {g \in GroupIds : g = ((subject - 1) % NumGroups) + 1}

\* Subjects.teachers (many-to-many on Subjects itself)
SubjectTeachers(subject) == {t \in TeacherIds : t = subject}

(***************************************************************************)
(* State.                                                                  *)
(*   store   : the SubjectSchedule table, primary key -> row               *)
(*   next_pk : the table's auto-increment counter                          *)
(*   nops    : number of state-changing requests served so far             *)
(*   result  : the response of the last request                            *)
(*   run     : the ScheduleGenerator object of a generate_schedule call    *)
(*             that is followed statement by statement                     *)
(***************************************************************************)
VARIABLES store, next_pk, nops, result, run

vars == <<store, next_pk, nops, result, run>>

NoPk == 0

Rows == [subject : SubjectIds, week_day : DayIds, time_slot : SlotIds,
         week_type : EvenOddBoth, groups : SUBSET GroupIds,
         teachers : SUBSET TeacherIds]

Pks(st) == DOMAIN st

Min(S) == CHOOSE x \in S : \A y \in S : x <= y

\* the table without row pk
DeleteRow(st, pk) == [p \in (DOMAIN st) \ {pk} |-> st[p]]

\* the table with row pk inserted or replaced
PutRow(st, pk, row) == [p \in (DOMAIN st) \cup {pk} |-> IF p = pk THEN row ELSE st[p]]

(***************************************************************************)
(* Conflict validators (validators.py).  A validator either returns or     *)
(* raises; the raised exception is modelled by the record it returns.      *)
(***************************************************************************)
NoConflict == [kind |-> "ok"]

\* the exception raised by reading an attribute the object does not have
AttributeError(attr) == [kind |-> "AttributeError", attr |-> attr]

\* a SubjectSchedule object: the persisted row pk as loaded from the table
Instance(st, pk) ==
    [model |-> "SubjectSchedule", pk |-> pk, subject |-> st[pk].subject,
     week_day |-> st[pk].week_day, time_slot |-> st[pk].time_slot,
     week_type |-> st[pk].week_type]

\* a SubjectSchedule object that was never saved
UnsavedInstance(row) ==
    [model |-> "SubjectSchedule", pk |-> NoPk, subject |-> row.subject,
     week_day |-> row.week_day, time_slot |-> row.time_slot,
     week_type |-> row.week_type]

\* a Subjects object: it has pk, groups, teachers and audience, and none of
\* subject, week_day, time_slot, week_type
SubjectObject(subject) == [model |-> "Subjects", pk |-> subject]

IsSchedule(inst) == inst.model = "SubjectSchedule"

\* schedule_instance.groups.all(): read from the database, not from memory
InstanceGroups(st, inst) ==
    IF IsSchedule(inst)
    THEN IF inst.pk \in Pks(st) THEN st[inst.pk].groups ELSE {}
    ELSE SubjectGroups(inst.pk)

\* schedule_instance.teachers.all()
InstanceTeachers(st, inst) ==
    IF IsSchedule(inst)
    THEN IF inst.pk \in Pks(st) THEN st[inst.pk].teachers ELSE {}
    ELSE SubjectTeachers(inst.pk)

\* variant of WeekTypeFilter: an EVEN or ODD object no longer matches BOTH rows
WeekTypeFilter_OwnTypeOnly(instance_week_type, row_week_type) ==
    IF instance_week_type = BOTH
    THEN row_week_type = BOTH \/ row_week_type = EVEN \/ row_week_type = ODD
    ELSE row_week_type = instance_week_type

\* the week-type filter the three validators apply to the candidate rows
WeekTypeFilter(instance_week_type, row_week_type) ==
    IF instance_week_type = BOTH
    THEN row_week_type = BOTH \/ row_week_type = EVEN \/ row_week_type = ODD
    ELSE row_week_type = instance_week_type \/ row_week_type = BOTH

\* variant of GroupConflictingSchedules: the object itself is not excluded
GroupConflictingSchedules_NoExclude(st, inst, group) ==
    {p \in Pks(st) :
        /\ group \in st[p].groups
        /\ st[p].week_day = inst.week_day
        /\ st[p].time_slot = inst.time_slot
        /\ WeekTypeFilter(inst.week_type, st[p].week_type)}

\* conflicting_schedules of the group validator for one group
GroupConflictingSchedules(st, inst, group) ==
    {p \in Pks(st) :
        /\ group \in st[p].groups
        /\ st[p].week_day = inst.week_day
        /\ st[p].time_slot = inst.time_slot
        /\ p # inst.pk
        /\ WeekTypeFilter(inst.week_type, st[p].week_type)}

validate_group_schedule_conflict(st, inst) ==
    IF inst.pk = NoPk THEN NoConflict
    ELSE LET groups == InstanceGroups(st, inst) IN
         IF groups = {} THEN NoConflict
         ELSE IF ~IsSchedule(inst) THEN AttributeError("week_day")
         ELSE LET hit == {g \in groups : GroupConflictingSchedules(st, inst, g) # {}} IN
              IF hit = {} THEN NoConflict
              ELSE LET group == Min(hit)
                       conflict == Min(GroupConflictingSchedules(st, inst, group))
                   IN [kind |-> "group", group |-> group,
                       subject |-> st[conflict].subject]

\* conflicting_schedules of the room validator
AudienceConflictingSchedules(st, inst) ==
    {p \in Pks(st) :
        /\ Audience(st[p].subject) = Audience(inst.subject)
        /\ st[p].week_day = inst.week_day
        /\ st[p].time_slot = inst.time_slot
        /\ p # inst.pk
        /\ WeekTypeFilter(inst.week_type, st[p].week_type)}

\* variant of validate_audience_schedule_conflict: an object without a
\* primary key is checked like any other
validate_audience_schedule_conflict_NoPkCheck(st, inst) ==
    IF ~IsSchedule(inst) THEN AttributeError("subject")
    ELSE IF AudienceConflictingSchedules(st, inst) = {} THEN NoConflict
    ELSE LET conflict == Min(AudienceConflictingSchedules(st, inst))
         IN [kind |-> "audience", audience |-> Audience(inst.subject),
             subject |-> st[conflict].subject]

validate_audience_schedule_conflict(st, inst) ==
    IF inst.pk = NoPk THEN NoConflict
    ELSE IF ~IsSchedule(inst) THEN AttributeError("subject")
    ELSE IF AudienceConflictingSchedules(st, inst) = {} THEN NoConflict
    ELSE LET conflict == Min(AudienceConflictingSchedules(st, inst))
         IN [kind |-> "audience", audience |-> Audience(inst.subject),
             subject |-> st[conflict].subject]

\* variant of TeacherConflictingSchedules: the time slot is not compared
TeacherConflictingSchedules_AnySlot(st, inst, teacher) ==
    {p \in Pks(st) :
        /\ teacher \in st[p].teachers
        /\ st[p].week_day = inst.week_day
        /\ p # inst.pk
        /\ WeekTypeFilter(inst.week_type, st[p].week_type)}

\* conflicting_schedules of the teacher validator for one teacher
TeacherConflictingSchedules(st, inst, teacher) ==
    {p \in Pks(st) :
        /\ teacher \in st[p].teachers
        /\ st[p].week_day = inst.week_day
        /\ st[p].time_slot = inst.time_slot
        /\ p # inst.pk
        /\ WeekTypeFilter(inst.week_type, st[p].week_type)}

validate_teacher_schedule_conflict(st, inst) ==
    IF inst.pk = NoPk THEN NoConflict
    ELSE LET teachers == InstanceTeachers(st, inst) IN
         IF teachers = {} THEN NoConflict
         ELSE IF ~IsSchedule(inst) THEN AttributeError("week_day")
         ELSE LET hit == {t \in teachers : TeacherConflictingSchedules(st, inst, t) # {}} IN
              IF hit = {} THEN NoConflict
              ELSE LET teacher == Min(hit)
                       conflict == Min(TeacherConflictingSchedules(st, inst, teacher))
                   IN [kind |-> "teacher", teacher |-> teacher,
                       subject |-> st[conflict].subject]

\* variant of check_schedule_conflicts: the teacher check runs first
check_schedule_conflicts_TeacherFirst(st, inst) ==
    IF validate_teacher_schedule_conflict(st, inst) # NoConflict
    THEN validate_teacher_schedule_conflict(st, inst)
    ELSE IF validate_group_schedule_conflict(st, inst) # NoConflict
    THEN validate_group_schedule_conflict(st, inst)
    ELSE validate_audience_schedule_conflict(st, inst)

\* group check, then room check, then teacher check; the first raise ends it
check_schedule_conflicts(st, inst) ==
    IF validate_group_schedule_conflict(st, inst) # NoConflict
    THEN validate_group_schedule_conflict(st, inst)
    ELSE IF validate_audience_schedule_conflict(st, inst) # NoConflict
    THEN validate_audience_schedule_conflict(st, inst)
    ELSE validate_teacher_schedule_conflict(st, inst)

(***************************************************************************)
(* Schedule generator (schedule_generator.py).                             *)
(***************************************************************************)
\* default of generate_schedule's max_attempts
max_attempts == 100

NoTime == -1
NoDay == 0

\* TIME_RANGES: preset name -> <<start_time, end_time>> in minutes
TIME_RANGES ==
    [morning |-> <<480, 870>>, mixed |-> <<690, 1020>>, afternoon |-> <<780, 1100>>,
     evening |-> <<960, 1260>>, full |-> <<480, 1260>>]

\* variant of _get_time_range: a named preset wins over custom values
_get_time_range_PresetFirst(time_range, custom_start, custom_end) ==
    IF time_range # "none" /\ time_range \in DOMAIN TIME_RANGES
    THEN TIME_RANGES[time_range]
    ELSE IF custom_start # NoTime /\ custom_end # NoTime THEN <<custom_start, custom_end>>
    ELSE <<NoTime, NoTime>>

\* custom values first, then the named preset, else no window
_get_time_range(time_range, custom_start, custom_end) ==
    IF custom_start # NoTime /\ custom_end # NoTime THEN <<custom_start, custom_end>>
    ELSE IF time_range # "none" /\ time_range \in DOMAIN TIME_RANGES
    THEN TIME_RANGES[time_range]
    ELSE <<NoTime, NoTime>>

\* the elements of a set of integers as an ascending sequence (order_by)
RECURSIVE OrderBy(_)
OrderBy(S) == IF S = {} THEN <<>> ELSE <<Min(S)>> \o OrderBy(S \ {Min(S)})

Reverse(seq) == [i \in 1..Len(seq) |-> seq[Len(seq) + 1 - i]]

\* the days kept by the day-range filter
FilterDays(start_day_id, end_day_id) ==
    IF start_day_id # NoDay /\ end_day_id # NoDay
    THEN {d \in DayIds : start_day_id <= d /\ d <= end_day_id}
    ELSE IF start_day_id # NoDay \/ end_day_id # NoDay
    THEN LET day_id == IF start_day_id # NoDay THEN start_day_id ELSE end_day_id
         IN {d \in DayIds : d = day_id}
    ELSE DayIds

\* the time slots kept by the time window
FilterTimeSlots(window) ==
    IF window[1] # NoTime /\ window[2] # NoTime
    THEN {t \in SlotIds : window[1] <= StartTime(t) /\ StartTime(t) <= window[2]}
    ELSE SlotIds

\* all_slots: the (day, time slot) pairs sorted by (day.id, number) or by
\* (day.id, -number)
RECURSIVE AllSlots(_, _)
AllSlots(days, day_slots) ==
    IF days = <<>> THEN <<>>
    ELSE [i \in 1..Len(day_slots) |-> <<Head(days), day_slots[i]>>]
         \o AllSlots(Tail(days), day_slots)

\* variant of SortedSlots: the slots of a day always ascend
SortedSlots_AlwaysAscending(all_days, all_time_slots, prefer_morning) ==
    AllSlots(OrderBy(all_days), OrderBy(all_time_slots))

SortedSlots(all_days, all_time_slots, prefer_morning) ==
    AllSlots(OrderBy(all_days),
             IF prefer_morning THEN OrderBy(all_time_slots)
             ELSE Reverse(OrderBy(all_time_slots)))

\* the distinct values of a sequence in order of first occurrence
RECURSIVE Unique(_)
Unique(seq) ==
    IF seq = <<>> THEN <<>>
    ELSE LET front == Unique(SubSeq(seq, 1, Len(seq) - 1))
             last == seq[Len(seq)]
         IN IF \E i \in 1..Len(front) : front[i] = last THEN front
            ELSE Append(front, last)

\* schedule_matrix is the sequence of its entries in insertion order, an
\* entry being [key |-> <<day, slot, week_type>>, group, subject]
SlotKey(day, time_slot, week_type) == <<day, time_slot, week_type>>

\* variant of _can_assign: the group check is left out
_can_assign_NoGroupCheck(matrix, subject, group, day, time_slot) ==
    LET slot_key == SlotKey(day, time_slot, BOTH)
        same_room == {i \in 1..Len(matrix) :
                         /\ matrix[i].key = slot_key
                         /\ Audience(matrix[i].subject) = Audience(subject)}
    IN \A i \in same_room : matrix[i].subject = subject

\* variant of _can_assign: the room check is left out
_can_assign_NoRoomCheck(matrix, subject, group, day, time_slot) ==
    LET slot_key == SlotKey(day, time_slot, BOTH)
        entries == {i \in 1..Len(matrix) : matrix[i].key = slot_key}
    IN ~(\E i \in entries : matrix[i].group = group)

_can_assign(matrix, subject, group, day, time_slot) ==
    LET slot_key == SlotKey(day, time_slot, BOTH)
        entries == {i \in 1..Len(matrix) : matrix[i].key = slot_key}
        same_room == {i \in entries : Audience(matrix[i].subject) = Audience(subject)}
    IN IF \E i \in entries : matrix[i].group = group THEN FALSE
       ELSE IF same_room # {}
       THEN LET existing_subject == matrix[CHOOSE i \in same_room :
                                              \A j \in same_room : j <= i].subject
            IN existing_subject = subject
       ELSE TRUE

_assign(matrix, subject, group, day, time_slot) ==
    Append(matrix, [key |-> SlotKey(day, time_slot, BOTH), group |-> group,
                    subject |-> subject])

\* variant of ScanDays: only the first slot of a day is tried
RECURSIVE ScanDays_FirstSlotOnly(_, _, _, _, _, _)
ScanDays_FirstSlotOnly(matrix, assignment, slots, days, day_index, attempts) ==
    IF attempts >= Len(days)
    THEN [assigned |-> FALSE, matrix |-> matrix, day_index |-> day_index, log |-> 0]
    ELSE LET current_day == days[(day_index % Len(days)) + 1]
             day_slots == SelectSeq(slots, LAMBDA s : s[1] = current_day)
         IN IF _can_assign(matrix, assignment.subject, assignment.group,
                           day_slots[1][1], day_slots[1][2])
            THEN [assigned |-> TRUE,
                  matrix |-> _assign(matrix, assignment.subject, assignment.group,
                                     day_slots[1][1], day_slots[1][2]),
                  day_index |-> day_index, log |-> 0]
            ELSE LET next_day == ScanDays_FirstSlotOnly(matrix, assignment, slots, days,
                                                        day_index + 1, attempts + 1)
                 IN [next_day EXCEPT !.log = @ + 1]

\* the while loop of _try_assign_all for one obligation: scan the days from
\* the cursor, each day at most once, and take the first slot that passes;
\* log counts the conflicts_log entries, one per slot that _can_assign refuses
RECURSIVE ScanDays(_, _, _, _, _, _)
ScanDays(matrix, assignment, slots, days, day_index, attempts) ==
    IF attempts >= Len(days)
    THEN [assigned |-> FALSE, matrix |-> matrix, day_index |-> day_index, log |-> 0]
    ELSE LET current_day == days[(day_index % Len(days)) + 1]
             day_slots == SelectSeq(slots, LAMBDA s : s[1] = current_day)
             passing == {i \in 1..Len(day_slots) :
                            _can_assign(matrix, assignment.subject, assignment.group,
                                        day_slots[i][1], day_slots[i][2])}
         IN IF passing # {}
            THEN [assigned |-> TRUE,
                  matrix |-> _assign(matrix, assignment.subject, assignment.group,
                                     day_slots[Min(passing)][1],
                                     day_slots[Min(passing)][2]),
                  day_index |-> day_index, log |-> Min(passing) - 1]
            ELSE LET next_day == ScanDays(matrix, assignment, slots, days,
                                          day_index + 1, attempts + 1)
                 IN [next_day EXCEPT !.log = @ + Len(day_slots)]

\* the for loop of _try_assign_all from obligation i on
RECURSIVE AssignFrom(_, _, _, _, _)
AssignFrom(assignments, slots, i, matrix, day_index) ==
    IF i > Len(assignments) THEN [success |-> TRUE, matrix |-> matrix, log |-> 0]
    ELSE LET days == Unique([k \in 1..Len(slots) |-> slots[k][1]])
             scan == ScanDays(matrix, assignments[i], slots, days, day_index, 0)
         IN IF scan.assigned
            THEN LET rest == AssignFrom(assignments, slots, i + 1, scan.matrix,
                                        scan.day_index + 1)
                 IN [rest EXCEPT !.log = @ + scan.log]
            ELSE [success |-> FALSE, matrix |-> scan.matrix, log |-> scan.log]

_try_assign_all(assignments, slots) == AssignFrom(assignments, slots, 1, <<>>, 0)

\* every order random.shuffle can leave the list in
Shuffles(seq) ==
    {[i \in 1..Len(seq) |-> seq[f[i]]] :
        f \in {g \in [1..Len(seq) -> 1..Len(seq)] :
                  \A a, b \in 1..Len(seq) : g[a] = g[b] => a = b}}

Max(S) == CHOOSE x \in S : \A y \in S : y <= x

\* variant of AttemptNumber: the loop index is reported as it is
AttemptNumber_ZeroBased(attempt) == attempt

\* the number the success message reports for loop index attempt of
\* range(max_attempts)
AttemptNumber(attempt) == attempt + 1

\* generate_schedule: the possible returns [success, attempts, matrix, reason,
\* messages, conflicts_log, pool], messages and conflicts_log being the
\* lengths of the two lists and pool the number of (day, time slot) pairs.
\* The first attempt runs on the list as built; every later attempt runs on
\* a shuffle of it, and conflicts_log grows over all the attempts.
generate_schedule(groups, subjects_per_group, prefer_morning, time_range, custom_start_time, custom_end_time, start_day_id, end_day_id) ==
    LET window == _get_time_range(time_range, custom_start_time, custom_end_time)
        all_days == FilterDays(start_day_id, end_day_id)
        all_time_slots == FilterTimeSlots(window)
        all_slots == SortedSlots(all_days, all_time_slots, prefer_morning)
        per_group == [k \in 1..Len(groups) |->
                        [j \in 1..Len(subjects_per_group[groups[k]]) |->
                            [subject |-> subjects_per_group[groups[k]][j],
                             group |-> groups[k]]]]
        Flatten[k \in 0..Len(groups)] ==
            IF k = 0 THEN <<>> ELSE Flatten[k - 1] \o per_group[k]
        all_assignments == Flatten[Len(groups)]
        first == _try_assign_all(all_assignments, all_slots)
        passing == {p \in Shuffles(all_assignments) : _try_assign_all(p, all_slots).success}
        failing_logs == {_try_assign_all(p, all_slots).log :
                            p \in Shuffles(all_assignments) \ passing}
        LogsOfFailures(n) == (n * Min(failing_logs))..(n * Max(failing_logs))
        head_messages ==
            (IF window[1] # NoTime /\ window[2] # NoTime THEN 2 ELSE 0)
            + (IF start_day_id # NoDay \/ end_day_id # NoDay THEN 1 ELSE 0) + 2
    IN IF all_time_slots = {} \/ all_days = {}
       THEN {[success |-> FALSE, attempts |-> 0, matrix |-> <<>>, reason |-> "empty_range",
              messages |-> 1, conflicts_log |-> 0, pool |-> 0]}
       ELSE IF first.success
       THEN {[success |-> TRUE, attempts |-> AttemptNumber(0), matrix |-> first.matrix, reason |-> "ok",
              messages |-> head_messages + 1, conflicts_log |-> first.log,
              pool |-> Len(all_slots)]}
       ELSE UNION {{[success |-> TRUE, attempts |-> AttemptNumber(k),
                     matrix |-> _try_assign_all(p, all_slots).matrix, reason |-> "ok",
                     messages |-> head_messages + 1,
                     conflicts_log |-> first.log + x + _try_assign_all(p, all_slots).log,
                     pool |-> Len(all_slots)] : x \in LogsOfFailures(k - 1)} :
                        p \in passing, k \in 1..(max_attempts - 1)}
            \cup {[success |-> FALSE, attempts |-> max_attempts, matrix |-> <<>>,
                   reason |-> "exhausted",
                   messages |-> head_messages + 1
                                + (IF first.log + x < 10 THEN first.log + x ELSE 10),
                   conflicts_log |-> first.log + x, pool |-> Len(all_slots)] :
                        x \in LogsOfFailures(max_attempts - 1)}

\* variant of ClearExisting: the step leaves the table as it is
ClearExisting_Nothing(st, group, subjects) == st

\* variant of ClearExisting: a row left without groups is not deleted
ClearExisting_KeepsOrphans(st, group, subjects) ==
    [p \in Pks(st) |->
        IF st[p].subject \in subjects THEN [st[p] EXCEPT !.groups = @ \ {group}]
        ELSE st[p]]

\* variant of ClearExisting: the rows of every subject are cleared
ClearExisting_AllSubjects(st, group, subjects) ==
    LET schedules == {p \in Pks(st) : group \in st[p].groups}
        deleted == {p \in schedules : Cardinality(st[p].groups) = 1}
    IN [p \in Pks(st) \ deleted |->
            IF p \in schedules THEN [st[p] EXCEPT !.groups = @ \ {group}] ELSE st[p]]

\* the clear_existing step: every row of a requested subject that holds the
\* group loses it, and is deleted when the group was its only one
ClearExisting(st, group, subjects) ==
    LET schedules == {p \in Pks(st) : st[p].subject \in subjects /\ group \in st[p].groups}
        deleted == {p \in schedules : Cardinality(st[p].groups) = 1}
    IN [p \in Pks(st) \ deleted |->
            IF p \in schedules THEN [st[p] EXCEPT !.groups = @ \ {group}] ELSE st[p]]

\* schedule_matrix.items() flattened: keys in insertion order, and under a
\* key its group entries in insertion order
MatrixItems(matrix) ==
    LET keys == Unique([i \in 1..Len(matrix) |-> matrix[i].key])
        Items[k \in 0..Len(keys)] ==
            IF k = 0 THEN <<>>
            ELSE Items[k - 1] \o SelectSeq(matrix, LAMBDA e : e.key = keys[k])
    IN Items[Len(keys)]

\* variant of GetOrCreateMatches: the lookup never finds a row
GetOrCreateMatches_AlwaysCreate(st, subject, day, time_slot, week_type) == {}

\* SubjectSchedule.objects.get_or_create(subject, week_day, time_slot, week_type)
GetOrCreateMatches(st, subject, day, time_slot, week_type) ==
    {p \in Pks(st) : /\ st[p].subject = subject
                     /\ st[p].week_day = day
                     /\ st[p].time_slot = time_slot
                     /\ st[p].week_type = week_type}

\* no database error strikes the write
NoFault == 0

\* the loop of the bulk write: one get_or_create and one groups.add per entry.
\* The get_or_create of entry number fault meets a database error, and more
\* than one matching row raises MultipleObjectsReturned; either ends the loop
\* with the rows written so far
RECURSIVE ApplyMatrix(_, _, _, _, _, _)
ApplyMatrix(st, npk, items, i, group, fault) ==
    IF i > Len(items)
    THEN [store |-> st, next_pk |-> npk, assigned |-> Len(items), raised |-> FALSE]
    ELSE LET data == items[i]
             matches == GetOrCreateMatches(st, data.subject, data.key[1], data.key[2],
                                           data.key[3])
         IN IF i = fault \/ Cardinality(matches) > 1
            THEN [store |-> st, next_pk |-> npk, assigned |-> i - 1, raised |-> TRUE]
            ELSE IF matches = {}
            THEN ApplyMatrix(
                     PutRow(st, npk, [subject |-> data.subject, week_day |-> data.key[1],
                                      time_slot |-> data.key[2], week_type |-> data.key[3],
                                      groups |-> {group}, teachers |-> {}]),
                     npk + 1, items, i + 1, group, fault)
            ELSE LET schedule == CHOOSE p \in matches : TRUE
                 IN ApplyMatrix([st EXCEPT ![schedule].groups = @ \cup {group}],
                                npk, items, i + 1, group, fault)

\* variant of BulkWrite: an exception leaves the rows written so far
BulkWrite_NoRollback(st, npk, items, group, fault) ==
    ApplyMatrix(st, npk, items, 1, group, fault)

\* the bulk write inside transaction.atomic(): an exception rolls the table
\* back to its state at the start of the block; the primary-key sequence and
\* the assigned_subjects counter are not rolled back
BulkWrite(st, npk, items, group, fault) ==
    LET written == ApplyMatrix(st, npk, items, 1, group, fault)
    IN IF written.raised THEN [written EXCEPT !.store = st] ELSE written

\* the entries of the write at which the model lets a database error strike:
\* none, or the last one
FaultPoints(items) == {NoFault} \cup {i \in {Len(items)} : i >= 1}

\* the table after a call and the call's response: how the call ended
\* (outcome), success, the statistics (total_subjects, assigned_subjects,
\* conflicts), the length of the message list and what the messages tell
\* (attempts, pool); reason names the return statement taken
GenerateResult(a, st, npk, success, reason, statistics, messages, gen) ==
    [store |-> st, next_pk |-> npk,
     result |-> [op |-> "generate", group_id |-> a.group_id,
                 subject_ids |-> a.subject_ids, clear_existing |-> a.clear_existing,
                 outcome |-> "returned", success |-> success, reason |-> reason,
                 total_subjects |-> statistics[1], assigned_subjects |-> statistics[2],
                 conflicts |-> statistics[3], messages |-> messages,
                 attempts |-> gen.attempts, pool |-> gen.pool]]

\* the generator was not called
NoRun == [attempts |-> 0, pool |-> 0]

\* generate_schedule_for_group: the possible outcomes [store, next_pk, result]
\* of one call on table st.  The subjects come from an unordered query.
generate_schedule_for_group(st, npk, a) ==
    IF a.group_id \notin GroupIds
    THEN {GenerateResult(a, st, npk, FALSE, "group_not_found", <<0, 0, 0>>, 1, NoRun)}
    ELSE LET subjects == {s \in SubjectIds : s \in a.subject_ids} IN
         IF Cardinality(subjects) # Cardinality(a.subject_ids)
         THEN {GenerateResult(a, st, npk, FALSE, "subjects_not_found", <<0, 0, 0>>, 1,
                              NoRun)}
         ELSE LET total == Cardinality(subjects)
                  cleared == IF a.clear_existing
                             THEN ClearExisting(st, a.group_id, subjects) ELSE st
                  messages == IF a.clear_existing THEN 3 ELSE 2
                  Outcome(gen, fault) ==
                      IF gen.success
                      THEN LET written == BulkWrite(cleared, npk, MatrixItems(gen.matrix),
                                                    a.group_id, fault)
                           IN IF written.raised
                              THEN GenerateResult(a, written.store, written.next_pk, FALSE,
                                                  "exception", <<total, written.assigned, 0>>,
                                                  messages + gen.messages + 1, gen)
                              ELSE GenerateResult(a, written.store, written.next_pk, TRUE,
                                                  "ok", <<total, written.assigned, 0>>,
                                                  messages + gen.messages + 2, gen)
                      ELSE GenerateResult(a, cleared, npk, FALSE, gen.reason,
                                          <<total, 0, gen.conflicts_log>>,
                                          messages + gen.messages, gen)
              IN UNION {{Outcome(gen, fault) : fault \in FaultPoints(MatrixItems(gen.matrix))} :
                    gen \in UNION {generate_schedule(<<a.group_id>>,
                                                     (a.group_id :> order),
                                                     a.prefer_morning, a.time_range,
                                                     a.custom_start_time, a.custom_end_time,
                                                     a.start_day_id, a.end_day_id) :
                                      order \in Shuffles(OrderBy(subjects))}}

\* validate_generated_schedule: one try block per Subjects object around the
\* three validators, so the first exception of an object is the only one
\* collected for it
ValidateItem(st, subject) ==
    check_schedule_conflicts(st, SubjectObject(subject))

validate_generated_schedule(st, group_ids) ==
    LET subjects == OrderBy({s \in SubjectIds : SubjectGroups(s) \cap group_ids # {}})
        raised == SelectSeq(subjects, LAMBDA s : ValidateItem(st, s) # NoConflict)
        conflicts == [i \in 1..Len(raised) |->
                        [item |-> raised[i], error |-> ValidateItem(st, raised[i])]]
    IN IF Len(conflicts) = 0
       THEN [is_valid |-> TRUE, conflicts |-> <<[item |-> 0, error |-> NoConflict]>>]
       ELSE [is_valid |-> FALSE, conflicts |-> conflicts]

\* variant of Round2: the digits after the second decimal are cut off
Round2_Truncate(num, den) == (100 * num) \div den

\* round(num / den, 2) in hundredths: the nearest hundredth, and the even one
\* of two that are equally near
Round2(num, den) ==
    LET q == (100 * num) \div den
        r == (100 * num) % den
    IN IF 2 * r < den THEN q
       ELSE IF 2 * r > den THEN q + 1
       ELSE IF q % 2 = 0 THEN q ELSE q + 1

\* the for loop of get_schedule_statistics over the subjects in sequence
\* subjects: the running totals after the first i of them
RECURSIVE CountSchedules(_, _, _)
CountSchedules(st, subjects, i) ==
    IF i = 0
    THEN [total_slots |-> 0, subjects_with_schedule |-> 0, subjects_without_schedule |-> 0]
    ELSE LET before == CountSchedules(st, subjects, i - 1)
             schedule_count == Cardinality({p \in Pks(st) : st[p].subject = subjects[i]})
         IN [total_slots |-> before.total_slots + schedule_count,
             subjects_with_schedule |->
                 before.subjects_with_schedule + (IF schedule_count > 0 THEN 1 ELSE 0),
             subjects_without_schedule |->
                 before.subjects_without_schedule + (IF schedule_count > 0 THEN 0 ELSE 1)]

\* get_schedule_statistics; average_slots_per_subject is in hundredths
get_schedule_statistics(st, group_ids) ==
    LET groups == {g \in GroupIds : g \in group_ids}
        subjects == OrderBy({s \in SubjectIds : SubjectGroups(s) \cap groups # {}})
        counts == CountSchedules(st, subjects, Len(subjects))
    IN [total_groups |-> Cardinality(groups),
        total_subjects |-> Len(subjects),
        subjects_with_schedule |-> counts.subjects_with_schedule,
        subjects_without_schedule |-> counts.subjects_without_schedule,
        total_schedule_slots |-> counts.total_slots,
        average_slots_per_subject |->
            IF Len(subjects) > 0 THEN Round2(counts.total_slots, Len(subjects)) ELSE 0]

(***************************************************************************)
(* Assignment API (SubjectScheduleViewSet with                             *)
(* SubjectScheduleCreateUpdateSerializer).                                 *)
(***************************************************************************)
\* SubjectScheduleCreateUpdateSerializer.validate: another row with the same
\* subject, day, time slot and week type rejects the request
SerializerRejects(st, pk, data) ==
    \E p \in Pks(st) : /\ p # pk
                       /\ st[p].subject = data.subject
                       /\ st[p].week_day = data.week_day
                       /\ st[p].time_slot = data.time_slot
                       /\ st[p].week_type = data.week_type

\* SubjectSchedule.save: the conflict validators run on the object at the
\* point of save
SaveRaises(st, inst) == check_schedule_conflicts(st, inst) # NoConflict

\* POST: validate, save the new object, then set its teachers and groups
create(data) ==
    /\ nops' = nops + 1
    /\ IF SerializerRejects(store, NoPk, data) \/ SaveRaises(store, UnsavedInstance(data))
       THEN /\ UNCHANGED <<store, next_pk>>
            /\ result' = [op |-> "create", status |-> "rejected", pk |-> NoPk]
       ELSE /\ store' = PutRow(store, next_pk, data)
            /\ next_pk' = next_pk + 1
            /\ result' = [op |-> "create", status |-> "accepted", pk |-> next_pk]

\* the value of a teacher_ids / group_ids field the request leaves out
Omitted == {-1}

\* PUT: validate, set the scalar fields and save, then set the teachers and
\* the groups the request carries
update(pk, data) ==
    /\ pk \in Pks(store)
    /\ nops' = nops + 1
    /\ UNCHANGED next_pk
    /\ IF \/ SerializerRejects(store, pk, data)
          \/ SaveRaises(store, [model |-> "SubjectSchedule", pk |-> pk,
                                subject |-> data.subject, week_day |-> data.week_day,
                                time_slot |-> data.time_slot,
                                week_type |-> data.week_type])
       THEN /\ UNCHANGED store
            /\ result' = [op |-> "update", status |-> "rejected", pk |-> pk]
       ELSE /\ store' = PutRow(store, pk,
                               [subject |-> data.subject, week_day |-> data.week_day,
                                time_slot |-> data.time_slot, week_type |-> data.week_type,
                                groups |-> IF data.groups = Omitted THEN store[pk].groups
                                           ELSE data.groups,
                                teachers |-> IF data.teachers = Omitted
                                             THEN store[pk].teachers ELSE data.teachers])
            /\ result' = [op |-> "update", status |-> "accepted", pk |-> pk]

\* the PUT requests explored for row pk: any placement with the memberships
\* left out, or the row's own placement with any memberships
UpdateArgs(pk) ==
    {[subject |-> s, week_day |-> d, time_slot |-> t, week_type |-> w,
      groups |-> Omitted, teachers |-> Omitted] :
        s \in SubjectIds, d \in DayIds, t \in SlotIds, w \in EvenOddBoth}
    \cup {[subject |-> store[pk].subject, week_day |-> store[pk].week_day,
           time_slot |-> store[pk].time_slot, week_type |-> store[pk].week_type,
           groups |-> gs, teachers |-> ts] :
             gs \in SUBSET GroupIds, ts \in SUBSET TeacherIds}

\* DELETE
destroy(pk) ==
    /\ pk \in Pks(store)
    /\ nops' = nops + 1
    /\ store' = DeleteRow(store, pk)
    /\ UNCHANGED next_pk
    /\ result' = [op |-> "destroy", status |-> "accepted", pk |-> pk]

\* requests to the generator explored by the model: the time arguments
\* <<time_range, custom_start_time, custom_end_time>> and the day arguments
\* <<start_day_id, end_day_id>>
WindowArgs ==
    {<<"none", NoTime, NoTime, NoDay, NoDay>>,
     <<"none", NoTime, NoTime, 1, NoDay>>,
     <<"evening", 480, 540, 1, NoDay>>,
     <<"evening", NoTime, NoTime, NoDay, NoDay>>,
     <<"none", NoTime, NoTime, NumDays, 1>>}

GenerateArgs ==
    {[group_id |-> g, subject_ids |-> ids, clear_existing |-> c, prefer_morning |-> m,
      time_range |-> w[1], custom_start_time |-> w[2], custom_end_time |-> w[3],
      start_day_id |-> w[4], end_day_id |-> w[5]] :
        g \in GroupIds \cup {UnknownGroupId},
        ids \in (SUBSET SubjectIds) \cup {{UnknownSubjectId}},
        c \in BOOLEAN, m \in BOOLEAN, w \in WindowArgs}

\* POST generate: one call of generate_schedule_for_group
generate(a) ==
    /\ nops' = nops + 1
    /\ \E out \in generate_schedule_for_group(store, next_pk, a) :
          /\ store' = out.store
          /\ next_pk' = out.next_pk
          /\ result' = out.result

\* GET validate: one call of validate_generated_schedule.  A read-only
\* request changes nothing, so the model lets it end the explored behaviour
validate(group_ids) ==
    /\ nops' = MaxOps + 1
    /\ result' = [op |-> "validate", group_ids |-> group_ids,
                  is_valid |-> validate_generated_schedule(store, group_ids).is_valid,
                  conflicts |-> validate_generated_schedule(store, group_ids).conflicts]
    /\ UNCHANGED <<store, next_pk>>

ValidateArgs == {GroupIds, {UnknownGroupId}}

\* GET statistics: one call of get_schedule_statistics, read-only as well
statistics(group_ids) ==
    /\ nops' = MaxOps + 1
    /\ result' = [op |-> "statistics", group_ids |-> group_ids,
                  statistics |-> get_schedule_statistics(store, group_ids)]
    /\ UNCHANGED <<store, next_pk>>

StatisticsArgs == {GroupIds, {UnknownGroupId}}

\* no generate_schedule call is being followed
Idle == [pc |-> "idle"]

Init ==
    /\ store = <<>>
    /\ next_pk = 1
    /\ nops = 0
    /\ result = [op |-> "none"]
    /\ run = Idle

\* the requests a client can send; a state-changing one uses up one of MaxOps
Create == nops < MaxOps /\ UNCHANGED run /\ \E data \in Rows : create(data)

Update == nops < MaxOps /\ UNCHANGED run /\ \E pk \in Pks(store) : \E data \in UpdateArgs(pk) : update(pk, data)

Destroy == nops < MaxOps /\ UNCHANGED run /\ \E pk \in Pks(store) : destroy(pk)

Generate == nops < MaxOps /\ UNCHANGED run /\ \E a \in GenerateArgs : generate(a)

Validate == nops <= MaxOps /\ UNCHANGED run /\ \E group_ids \in ValidateArgs : validate(group_ids)

Statistics == nops <= MaxOps /\ UNCHANGED run /\ \E group_ids \in StatisticsArgs : statistics(group_ids)

Next == Create \/ Update \/ Destroy \/ Generate \/ Validate \/ Statistics

Spec == Init /\ [][Next]_vars

TypeOK ==
    /\ \A p \in Pks(store) : store[p] \in Rows
    /\ next_pk \in Nat
    /\ nops \in 0..(MaxOps + 1)

(***************************************************************************)
(* One generate_schedule call, statement by statement: the resolution of   *)
(* the pool, the attempts of the retry loop with the placements of each,   *)
(* and for a single group the bulk write of generate_schedule_for_group    *)
(* into an empty table.                                                    *)
(***************************************************************************)
\* the max_attempts argument of the calls that are followed
MaxAttemptsArg == 2
\* the largest obligation list of the calls that are followed
MaxObligations == 4

\* all_assignments: the obligations group by group, each group's subjects in
\* the order of its list
AllAssignments(groups, subjects_per_group) ==
    LET per_group == [k \in 1..Len(groups) |->
                        [j \in 1..Len(subjects_per_group[groups[k]]) |->
                            [subject |-> subjects_per_group[groups[k]][j],
                             group |-> groups[k]]]]
        Flatten[k \in 0..Len(groups)] ==
            IF k = 0 THEN <<>> ELSE Flatten[k - 1] \o per_group[k]
    IN Flatten[Len(groups)]

\* generate_schedule up to its retry loop: the window, the filtered days and
\* time slots, the sorted pool and the obligation list
StartRun(a) ==
    LET window == _get_time_range(a.time_range, a.custom_start_time, a.custom_end_time)
        all_days == FilterDays(a.start_day_id, a.end_day_id)
        all_time_slots == FilterTimeSlots(window)
        empty == all_time_slots = {} \/ all_days = {}
    IN [pc |-> IF empty THEN "empty" ELSE "loop",
        args |-> a,
        window |-> window,
        all_days |-> all_days,
        all_time_slots |-> all_time_slots,
        all_slots |-> IF empty THEN <<>>
                      ELSE SortedSlots(all_days, all_time_slots, a.prefer_morning),
        all_assignments |-> AllAssignments(a.groups, a.subjects_per_group),
        attempt |-> 0, i |-> 0, matrix |-> <<>>, day_index |-> 0, conflicts_log |-> 0]

\* the distinct days of the pool in its order
RunDays(r) == Unique([k \in 1..Len(r.all_slots) |-> r.all_slots[k][1]])

\* variant of StartAttempt: the matrix of the attempt before is kept
StartAttempt_KeepsMatrix(r) == [r EXCEPT !.pc = "attempt", !.i = 0, !.day_index = 0]

\* the head of _try_assign_all: a fresh matrix and the day cursor at 0
StartAttempt(r) ==
    [r EXCEPT !.pc = "attempt", !.i = 0, !.day_index = 0, !.matrix = <<>>]

\* the scan of the for loop for the obligation that is next
NextScan(r) ==
    ScanDays(r.matrix, r.all_assignments[r.i + 1], r.all_slots, RunDays(r), r.day_index, 0)

\* the subject lists, and the calls that are followed: every obligation list
\* on a few pools, and every time argument with one obligation
SubjectLists == UNION {Shuffles(OrderBy(S)) : S \in SUBSET SubjectIds}

GroupLists == {[k \in 1..n |-> k] : n \in 1..NumGroups}

PoolArgs ==
    {<<"none", NoTime, NoTime, NoDay, NoDay>>,
     <<"none", NoTime, NoTime, 1, NoDay>>,
     <<"none", 480, 540, NoDay, NoDay>>,
     <<"none", 480, 540, 1, NoDay>>}

TimeArgs ==
    {<<t, cs, ce, NoDay, NoDay>> :
        t \in {"none", "morning", "mixed", "afternoon", "evening", "full", "night"},
        cs \in {NoTime, 480, 500, 580}, ce \in {NoTime, 480, 580, 600}}

\* the obligation lists of a group list: groups that are not passed have no
\* subjects, and the whole list is at most MaxObligations long
SubjectsPerGroup(gs) ==
    {spg \in [GroupIds -> SubjectLists] :
        /\ \A g \in GroupIds : (\A k \in 1..Len(gs) : gs[k] # g) => spg[g] = <<>>
        /\ Len(AllAssignments(gs, spg)) <= MaxObligations}

RunArgs(gs, spg, m, w) ==
    [groups |-> gs, subjects_per_group |-> spg, prefer_morning |-> m,
     max_attempts |-> MaxAttemptsArg,
     time_range |-> w[1], custom_start_time |-> w[2], custom_end_time |-> w[3],
     start_day_id |-> w[4], end_day_id |-> w[5]]

FollowedArgs ==
    {RunArgs(p[1], p[2], m, w) :
        p \in UNION {{<<gs, spg>> : spg \in SubjectsPerGroup(gs)} : gs \in GroupLists},
        m \in BOOLEAN, w \in PoolArgs}
    \cup {RunArgs(<<1>>, [g \in GroupIds |-> IF g = 1 THEN <<1>> ELSE <<>>], TRUE, w) :
            w \in TimeArgs}

InitRun ==
    /\ store = <<>>
    /\ next_pk = 1
    /\ nops = 0
    /\ result = [op |-> "none"]
    /\ run \in {StartRun(a) : a \in FollowedArgs}

\* the loop calls _try_assign_all
TryAssignAll ==
    /\ run.pc = "loop"
    /\ run' = StartAttempt(run)
    /\ UNCHANGED <<store, next_pk, nops, result>>

\* variant of PlaceObligation: the cursor stays on the day of the placement
PlaceObligation_CursorStays ==
    /\ run.pc = "attempt"
    /\ run.i < Len(run.all_assignments)
    /\ NextScan(run).assigned
    /\ run' = [run EXCEPT !.i = @ + 1, !.matrix = NextScan(run).matrix,
                          !.day_index = NextScan(run).day_index,
                          !.conflicts_log = @ + NextScan(run).log]
    /\ UNCHANGED <<store, next_pk, nops, result>>

\* one pass of the for loop that places its obligation
PlaceObligation ==
    /\ run.pc = "attempt"
    /\ run.i < Len(run.all_assignments)
    /\ NextScan(run).assigned
    /\ run' = [run EXCEPT !.i = @ + 1, !.matrix = NextScan(run).matrix,
                          !.day_index = NextScan(run).day_index + 1,
                          !.conflicts_log = @ + NextScan(run).log]
    /\ UNCHANGED <<store, next_pk, nops, result>>

\* one pass of the for loop that finds no slot: _try_assign_all returns False
AttemptFails ==
    /\ run.pc = "attempt"
    /\ run.i < Len(run.all_assignments)
    /\ ~NextScan(run).assigned
    /\ run' = [run EXCEPT !.pc = "failed", !.conflicts_log = @ + NextScan(run).log]
    /\ UNCHANGED <<store, next_pk, nops, result>>

\* the for loop is through: _try_assign_all returns True and generate_schedule
\* returns
AttemptSucceeds ==
    /\ run.pc = "attempt"
    /\ run.i = Len(run.all_assignments)
    /\ run' = [run EXCEPT !.pc = "success"]
    /\ UNCHANGED <<store, next_pk, nops, result>>

\* random.shuffle after a failed attempt, and the next pass of the retry loop
\* or its end
ShuffleAndRetry ==
    /\ run.pc = "failed"
    /\ \E order \in Shuffles(run.all_assignments) :
          run' = [run EXCEPT !.all_assignments = order, !.attempt = @ + 1,
                             !.pc = IF run.attempt + 1 < run.args.max_attempts
                                    THEN "loop" ELSE "exhausted"]
    /\ UNCHANGED <<store, next_pk, nops, result>>

\* generate_schedule_for_group writes the matrix of a successful run
Persist ==
    /\ run.pc = "success"
    /\ Len(run.args.groups) = 1
    /\ LET written == BulkWrite(store, next_pk, MatrixItems(run.matrix),
                                run.args.groups[1], NoFault)
       IN /\ store' = written.store
          /\ next_pk' = written.next_pk
    /\ run' = [run EXCEPT !.pc = "persisted"]
    /\ UNCHANGED <<nops, result>>

NextRun ==
    \/ TryAssignAll
    \/ PlaceObligation
    \/ AttemptFails
    \/ AttemptSucceeds
    \/ ShuffleAndRetry
    \/ Persist

SpecRun == InitRun /\ [][NextRun]_vars

(***************************************************************************)
(* Properties.                                                             *)
(***************************************************************************)
\* week-parity overlap as the specification tabulates it
ParityTable ==
    {<<BOTH, BOTH>>, <<BOTH, EVEN>>, <<BOTH, ODD>>, <<EVEN, EVEN>>, <<EVEN, BOTH>>,
     <<ODD, ODD>>, <<ODD, BOTH>>}

\* rows p and q occupy the same day and time slot in overlapping weeks
SameSlot(st, p, q) ==
    /\ st[p].week_day = st[q].week_day
    /\ st[p].time_slot = st[q].time_slot
    /\ <<st[p].week_type, st[q].week_type>> \in ParityTable

\* the other rows that share a group, a room or a teacher with row p in its slot
GroupCollisions(st, p) ==
    {q \in Pks(st) \ {p} : st[p].groups \cap st[q].groups # {} /\ SameSlot(st, p, q)}

RoomCollisions(st, p) ==
    {q \in Pks(st) \ {p} :
        Audience(st[p].subject) = Audience(st[q].subject) /\ SameSlot(st, p, q)}

TeacherCollisions(st, p) ==
    {q \in Pks(st) \ {p} : st[p].teachers \cap st[q].teachers # {} /\ SameSlot(st, p, q)}

NoDoubleBooking(st) ==
    \A p, q \in Pks(st) :
        (p # q /\ SameSlot(st, p, q)) =>
            /\ st[p].groups \cap st[q].groups = {}
            /\ (Audience(st[p].subject) # Audience(st[q].subject)
                \/ st[p].subject = st[q].subject)

\* C1: a successful generate_schedule_for_group call on a conflict-free table
\* leaves a table in which no two rows of one slot share a group, or share a
\* room between different subjects
C1_NoDoubleBookingAfterGeneration ==
    [][(result'.op = "generate" /\ result'.success /\ NoDoubleBooking(store))
        => NoDoubleBooking(store')]_vars

\* C2: a generate_schedule_for_group call that fails because the attempt
\* budget is exhausted leaves the table as it was, whatever clear_existing is
C2_FailureIsHarmless ==
    [][(result'.op = "generate" /\ result'.reason = "exhausted") => store' = store]_vars

\* C3: a call with an unknown group, an unknown subject, a reversed day range
\* or a time window without time slots returns success=false and leaves the
\* table as it was
C3_InputErrorsDoNoPartialWork ==
    [][(/\ result'.op = "generate"
        /\ result'.reason \in {"group_not_found", "subjects_not_found", "empty_range"})
        => (~result'.success /\ store' = store)]_vars

\* C4: a create or update through the assignment API that makes the row share
\* a group, a room under another subject, or a teacher with another row of
\* its slot is rejected, and a rejected request leaves the table unchanged
C4_ConflictOnPersistRejected ==
    [][result'.op \in {"create", "update"} =>
        IF result'.status = "accepted"
        THEN /\ GroupCollisions(store', result'.pk) = {}
             /\ TeacherCollisions(store', result'.pk) = {}
             /\ \A q \in RoomCollisions(store', result'.pk) :
                    store'[q].subject = store'[result'.pk].subject
        ELSE store' = store]_vars

\* C5: the room validator reports no conflict for a row when every other row
\* in its room and slot belongs to the same subject
C5_StreamedSubjectException ==
    \A p \in Pks(store) :
        (\A q \in RoomCollisions(store, p) : store[q].subject = store[p].subject)
            => validate_audience_schedule_conflict(store, Instance(store, p)) = NoConflict

\* C6: the group validator reports a conflict for a persisted row exactly when
\* another row shares a group with it on the same day and time slot in
\* overlapping weeks, and the report names a group and the subject of such a row
C6_GroupValidator ==
    \A p \in Pks(store) :
        LET report == validate_group_schedule_conflict(store, Instance(store, p)) IN
        /\ (report # NoConflict) <=> (GroupCollisions(store, p) # {})
        /\ report # NoConflict =>
              /\ report.kind = "group"
              /\ \E q \in GroupCollisions(store, p) :
                    /\ report.subject = store[q].subject
                    /\ report.group \in store[p].groups \cap store[q].groups

\* a row with a group conflict is in the table
C6_Witness ==
    \E p \in Pks(store) :
        /\ validate_group_schedule_conflict(store, Instance(store, p)) # NoConflict
        /\ Cardinality(Pks(store)) = 2

\* C7: the teacher validator reports a conflict for a persisted row exactly
\* when another row holds one of its teachers on the same day and time slot in
\* overlapping weeks; a row without teachers never has one
C7_TeacherValidator ==
    \A p \in Pks(store) :
        LET report == validate_teacher_schedule_conflict(store, Instance(store, p)) IN
        /\ (report # NoConflict) <=> (TeacherCollisions(store, p) # {})
        /\ report # NoConflict =>
              /\ report.kind = "teacher"
              /\ report.teacher \in store[p].teachers
        /\ store[p].teachers = {} => report = NoConflict

\* a row whose teacher is held by another row of its slot is in the table
C7_Witness ==
    \E p \in Pks(store) :
        /\ validate_teacher_schedule_conflict(store, Instance(store, p)) # NoConflict
        /\ TeacherCollisions(store, p) # {}

\* C8: for two rows of one day and time slot, each validator counts the second
\* row against the first exactly when their week types overlap by the table
\* (BOTH with everything, EVEN with EVEN, ODD with ODD), so an EVEN and an ODD
\* row never conflict, and the relation is symmetric
C8_ParityOverlap ==
    \A p, q \in Pks(store) :
        (/\ p # q
         /\ store[p].week_day = store[q].week_day
         /\ store[p].time_slot = store[q].time_slot) =>
            LET a == Instance(store, p)
                b == Instance(store, q)
                overlap == <<store[p].week_type, store[q].week_type>> \in ParityTable
            IN /\ \A g \in store[p].groups \cap store[q].groups :
                    /\ (q \in GroupConflictingSchedules(store, a, g)) <=> overlap
                    /\ (q \in GroupConflictingSchedules(store, a, g))
                         <=> (p \in GroupConflictingSchedules(store, b, g))
               /\ \A t \in store[p].teachers \cap store[q].teachers :
                    /\ (q \in TeacherConflictingSchedules(store, a, t)) <=> overlap
                    /\ (q \in TeacherConflictingSchedules(store, a, t))
                         <=> (p \in TeacherConflictingSchedules(store, b, t))
               /\ Audience(store[p].subject) = Audience(store[q].subject) =>
                    /\ (q \in AudienceConflictingSchedules(store, a)) <=> overlap
                    /\ (q \in AudienceConflictingSchedules(store, a))
                         <=> (p \in AudienceConflictingSchedules(store, b))
               /\ {store[p].week_type, store[q].week_type} = {EVEN, ODD} =>
                    /\ \A g \in GroupIds : q \notin GroupConflictingSchedules(store, a, g)
                    /\ \A t \in TeacherIds : q \notin TeacherConflictingSchedules(store, a, t)
                    /\ q \notin AudienceConflictingSchedules(store, a)

\* an EVEN row and an ODD row of the same group stand in the same day and time
\* slot
C8_Witness ==
    \E p, q \in Pks(store) :
        /\ store[p].week_type = EVEN
        /\ store[q].week_type = ODD
        /\ store[p].week_day = store[q].week_day
        /\ store[p].time_slot = store[q].time_slot
        /\ store[p].groups \cap store[q].groups # {}
        /\ store[p].teachers \cap store[q].teachers # {}

\* the rows of a subject, and whether one of them has a conflict of a category
SubjectRows(st, subject) == {p \in Pks(st) : st[p].subject = subject}

SubjectConflictKinds(st, subject) ==
    {k \in {"group", "audience", "teacher"} :
        \E p \in SubjectRows(st, subject) :
            \/ k = "group" /\ GroupCollisions(st, p) # {}
            \/ k = "audience" /\ \E q \in RoomCollisions(st, p) : st[q].subject # subject
            \/ k = "teacher" /\ TeacherCollisions(st, p) # {}}

\* C9: validate_generated_schedule collects every conflict: a checked subject
\* with conflicts of two or three categories has a message of each category
\* in the returned list
C9_ExhaustiveValidation ==
    result.op = "validate" =>
        \A s \in SubjectIds :
            (/\ SubjectGroups(s) \cap result.group_ids # {}
             /\ Cardinality(SubjectConflictKinds(store, s)) >= 2) =>
                \A k \in SubjectConflictKinds(store, s) :
                    \E i \in 1..Len(result.conflicts) :
                        /\ result.conflicts[i].item = s
                        /\ result.conflicts[i].error.kind = k

\* C10: validate_generated_schedule answers is_valid=True with exactly one
\* message when the rows of the given groups have no group, room or teacher
\* conflict, and is_valid=False with a non-empty list exactly when they have one
C10_ValidationVerdict ==
    result.op = "validate" =>
        LET rows == {p \in Pks(store) : store[p].groups \cap result.group_ids # {}}
            conflict == \E p \in rows :
                            \/ GroupCollisions(store, p) # {}
                            \/ TeacherCollisions(store, p) # {}
                            \/ \E q \in RoomCollisions(store, p) :
                                  store[q].subject # store[p].subject
        IN /\ ~conflict => (result.is_valid /\ Len(result.conflicts) = 1)
           /\ conflict <=> (~result.is_valid /\ Len(result.conflicts) >= 1)

\* the rows of a subject that hold a group
Membership(st, subject, group) ==
    {p \in Pks(st) : st[p].subject = subject /\ group \in st[p].groups}

RowKey(row) == <<row.subject, row.week_day, row.time_slot, row.week_type>>

NoDuplicateKeys(st) ==
    \A p, q \in Pks(st) : RowKey(st[p]) = RowKey(st[q]) => p = q

ClearingRan(res) ==
    /\ res.op = "generate"
    /\ res.clear_existing
    /\ res.reason \notin {"group_not_found", "subjects_not_found"}

\* C13: a call with clear_existing deletes every row of a requested subject
\* whose only group was the target group, and keeps every such row that had
\* other groups, with those groups intact and the target group removed (the
\* bulk write of a successful run may add the target group again)
C13_Clearing ==
    [][ClearingRan(result') =>
        \A p \in Pks(store) :
            (store[p].subject \in result'.subject_ids
             /\ result'.group_id \in store[p].groups) =>
                IF store[p].groups = {result'.group_id}
                THEN p \notin Pks(store')
                ELSE /\ p \in Pks(store')
                     /\ store'[p].groups # {}
                     /\ store[p].groups \ {result'.group_id} \subseteq store'[p].groups
                     /\ store'[p].groups \subseteq store[p].groups
                     /\ ~result'.success => result'.group_id \notin store'[p].groups]_vars

\* a failed call whose clearing step deleted the only row of the table
C13_Witness ==
    /\ ClearingRan(result)
    /\ ~result.success
    /\ nops = 2
    /\ next_pk = 2
    /\ store = <<>>

\* C14: the clearing step leaves every row of a subject that was not requested
\* as it was, deletes only rows of requested subjects whose only group was the
\* target group, and changes neither the placement, the teachers nor the other
\* groups of a row that stays; when the run then fails, rows without the
\* target group are unchanged and no row is added
C14_ClearingFrame ==
    [][ClearingRan(result') =>
        /\ \A p \in Pks(store) :
              store[p].subject \notin result'.subject_ids =>
                  (p \in Pks(store') /\ store'[p] = store[p])
        /\ \A p \in Pks(store) \ Pks(store') :
              /\ store[p].subject \in result'.subject_ids
              /\ store[p].groups = {result'.group_id}
        /\ \A p \in Pks(store) \cap Pks(store') :
              /\ RowKey(store'[p]) = RowKey(store[p])
              /\ store'[p].teachers = store[p].teachers
              /\ store'[p].groups \ {result'.group_id} = store[p].groups \ {result'.group_id}
        /\ ~result'.success =>
              /\ Pks(store') \subseteq Pks(store)
              /\ \A p \in Pks(store) :
                    result'.group_id \notin store[p].groups =>
                        (p \in Pks(store') /\ store'[p] = store[p])]_vars

\* after a failed call with clearing, a row of a subject that was not
\* requested still holds the target group and a teacher
C14_Witness ==
    /\ ClearingRan(result)
    /\ ~result.success
    /\ \E p \in Pks(store) :
          /\ store[p].subject \notin result.subject_ids
          /\ result.group_id \in store[p].groups
          /\ store[p].teachers # {}

\* the generator was called, and the search started
GeneratorRan(res) ==
    res.op = "generate" /\ res.reason \in {"ok", "exception", "exhausted", "empty_range"}

SearchRan(res) == res.op = "generate" /\ res.reason \in {"ok", "exception", "exhausted"}

\* C15 (as stated): a generate_schedule run makes at most max_attempts
\* attempts, reports the number of its first successful attempt, and reports
\* failure only after exactly max_attempts failed attempts
C15_BoundedRetry ==
    GeneratorRan(result) =>
        /\ result.attempts <= max_attempts
        /\ result.reason \in {"ok", "exception"} => result.attempts >= 1
        /\ result.reason \in {"exhausted", "empty_range"} => result.attempts = max_attempts

\* C15 (amended): a run whose candidate pool is not empty makes between 1 and
\* max_attempts attempts; it stops at its first attempt when that one places
\* everything and reports 1; it reports failure after exactly max_attempts
\* attempts, none of which could succeed.  A run whose day list or time-slot
\* list is empty reports failure without any attempt
C15_BoundedRetrySearch ==
    /\ SearchRan(result) =>
          /\ result.pool >= 1
          /\ result.attempts \in 1..max_attempts
          /\ result.total_subjects <= result.pool =>
                (result.reason \in {"ok", "exception"} /\ result.attempts = 1)
          /\ result.reason = "exhausted" =>
                (result.attempts = max_attempts /\ result.total_subjects > result.pool)
    /\ (result.op = "generate" /\ result.reason = "empty_range") =>
          (result.attempts = 0 /\ result.pool = 0 /\ ~result.success)

\* a run that gave up after max_attempts attempts on a pool that is not empty
C15_Witness ==
    /\ SearchRan(result)
    /\ result.reason = "exhausted"
    /\ result.attempts = max_attempts
    /\ result.pool >= 1

\* C16: a call for one group with n >= 1 requested subjects and a candidate
\* pool of at least n (day, time slot) pairs, whose write meets no database
\* error, succeeds within the attempt budget with assigned_subjects = n and
\* conflicts = 0 in the statistics
C16_FeasibleSingleGroup ==
    (/\ GeneratorRan(result)
     /\ result.reason # "exception"
     /\ result.total_subjects >= 1
     /\ result.pool >= result.total_subjects) =>
        /\ result.success
        /\ result.attempts \in 1..max_attempts
        /\ result.total_subjects = Cardinality(result.subject_ids)
        /\ result.assigned_subjects = result.total_subjects
        /\ result.conflicts = 0
        /\ \A s \in result.subject_ids : Membership(store, s, result.group_id) # {}

\* a successful call for as many subjects as the catalog has, on a pool that
\* has a slot to spare
C16_Witness ==
    /\ result.op = "generate"
    /\ result.success
    /\ result.total_subjects = NumSubjects
    /\ result.assigned_subjects = NumSubjects
    /\ result.pool > NumSubjects

\* C17: a call for one group with more requested subjects than candidate
\* (day, time slot) pairs returns success=false after max_attempts failed
\* attempts, with a message list that is not empty, and leaves the table as
\* it was
C17_InfeasibleSingleGroup ==
    [][(/\ SearchRan(result')
        /\ result'.pool >= 1
        /\ result'.total_subjects > result'.pool) =>
            /\ ~result'.success
            /\ result'.reason = "exhausted"
            /\ result'.attempts = max_attempts
            /\ result'.messages >= 1
            /\ store' = store]_vars

\* C18: when a database error interrupts the bulk write, no row the run
\* created and no group membership it added remains in the table, and without
\* clear_existing the table is as it was before the call
C18_AtomicBulkWrite ==
    [][(result'.op = "generate" /\ result'.reason = "exception") =>
        /\ Pks(store') \subseteq Pks(store)
        /\ \A p \in Pks(store') :
              /\ store'[p].groups \subseteq store[p].groups
              /\ RowKey(store'[p]) = RowKey(store[p])
              /\ store'[p].teachers = store[p].teachers
        /\ ~result'.clear_existing => store' = store]_vars

\* a write that was interrupted after it had written an entry and created a
\* row
C18_Witness ==
    /\ result.op = "generate"
    /\ result.reason = "exception"
    /\ result.assigned_subjects >= 1
    /\ next_pk > 1
    /\ store = <<>>
    /\ nops = 1

\* C19: a database error during a generate_schedule_for_group call reaches
\* the caller as the error itself, and no search attempt follows it
C19_StorageErrorsPropagate ==
    (result.op = "generate" /\ result.reason = "exception") =>
        (result.outcome = "raised" /\ result.attempts <= max_attempts)

\* C20: get_schedule_statistics counts every subject of the given groups as
\* either with or without schedule, total_schedule_slots is the number of rows
\* of those subjects, and average_slots_per_subject is the hundredth nearest
\* to total_schedule_slots / total_subjects, or 0 without subjects
C20_Statistics ==
    result.op = "statistics" =>
        LET stats == result.statistics
            subjects == {s \in SubjectIds :
                            SubjectGroups(s) \cap result.group_ids \cap GroupIds # {}}
            rows == {p \in Pks(store) : store[p].subject \in subjects}
            distance == 100 * stats.total_schedule_slots
                        - stats.average_slots_per_subject * stats.total_subjects
        IN /\ stats.total_subjects = Cardinality(subjects)
           /\ stats.subjects_with_schedule + stats.subjects_without_schedule
                = stats.total_subjects
           /\ stats.subjects_with_schedule
                = Cardinality({s \in subjects : SubjectRows(store, s) # {}})
           /\ stats.total_schedule_slots = Cardinality(rows)
           /\ stats.total_subjects = 0 => stats.average_slots_per_subject = 0
           /\ stats.total_subjects > 0 =>
                /\ 2 * distance <= stats.total_subjects
                /\ -2 * distance <= stats.total_subjects

\* statistics of three subjects with two rows: the average 0.666... is
\* reported as 0.67
C20_Witness ==
    /\ result.op = "statistics"
    /\ result.statistics.total_subjects = 3
    /\ result.statistics.total_schedule_slots = 2
    /\ result.statistics.subjects_without_schedule >= 1
    /\ result.statistics.average_slots_per_subject = 67

\* C21: an object without a primary key is reported conflict-free by the
\* group, room and teacher validators and by check_schedule_conflicts, also
\* when it stands on the day and time slot of a persisted row
C21_UnsavedIsConflictFree ==
    \A p \in Pks(store) : \A s \in SubjectIds : \A wt \in EvenOddBoth :
        LET inst == UnsavedInstance([store[p] EXCEPT !.subject = s, !.week_type = wt])
        IN /\ validate_group_schedule_conflict(store, inst) = NoConflict
           /\ validate_audience_schedule_conflict(store, inst) = NoConflict
           /\ validate_teacher_schedule_conflict(store, inst) = NoConflict
           /\ check_schedule_conflicts(store, inst) = NoConflict

\* a persisted row has a conflict, and its unsaved copy is reported free
C21_Witness ==
    \E p \in Pks(store) :
        /\ check_schedule_conflicts(store, Instance(store, p)) # NoConflict
        /\ check_schedule_conflicts(store, UnsavedInstance(store[p])) = NoConflict

\* C22: check_schedule_conflicts reports the group conflict of a row that has
\* one, else the room conflict of a row whose room is held by another subject,
\* else the teacher conflict, so group comes before room and room before
\* teacher
C22_CheckOrder ==
    \A p \in Pks(store) :
        LET report == check_schedule_conflicts(store, Instance(store, p))
            room == \E q \in RoomCollisions(store, p) : store[q].subject # store[p].subject
        IN /\ GroupCollisions(store, p) # {} => report.kind = "group"
           /\ (GroupCollisions(store, p) = {} /\ room) => report.kind = "audience"
           /\ (/\ GroupCollisions(store, p) = {}
               /\ RoomCollisions(store, p) = {}
               /\ TeacherCollisions(store, p) # {}) => report.kind = "teacher"
           /\ (/\ GroupCollisions(store, p) = {}
               /\ RoomCollisions(store, p) = {}
               /\ TeacherCollisions(store, p) = {}) => report = NoConflict

\* a row with a group conflict and a teacher conflict, which is reported with
\* the group conflict
C22_Witness ==
    \E p \in Pks(store) :
        /\ GroupCollisions(store, p) # {}
        /\ TeacherCollisions(store, p) # {}
        /\ check_schedule_conflicts(store, Instance(store, p)).kind = "group"

(***************************************************************************)
(* The allocation matrix and the search, statement by statement.           *)
(***************************************************************************)
\* an attempt of the followed call is under way or has ended
InAttempt == run.pc \in {"attempt", "failed", "success"}

\* C23: after any sequence of placements of one attempt, two entries of the
\* matrix under the same slot key belong to different groups, and if their
\* subjects use the same room they are the same subject.
C23_MatrixInvariant ==
    InAttempt =>
        \A i, j \in 1..Len(run.matrix) :
            (i # j /\ run.matrix[i].key = run.matrix[j].key) =>
                /\ run.matrix[i].group # run.matrix[j].group
                /\ Audience(run.matrix[i].subject) = Audience(run.matrix[j].subject)
                        => run.matrix[i].subject = run.matrix[j].subject

\* two groups share a slot key: once with one streamed subject in one room,
\* once with subjects of different rooms
C23_Witness ==
    /\ InAttempt
    /\ Len(run.matrix) = 4
    /\ \E i, j \in 1..Len(run.matrix) :
          /\ i # j /\ run.matrix[i].key = run.matrix[j].key
          /\ run.matrix[i].subject = run.matrix[j].subject
    /\ \E i, j \in 1..Len(run.matrix) :
          /\ i # j /\ run.matrix[i].key = run.matrix[j].key
          /\ Audience(run.matrix[i].subject) # Audience(run.matrix[j].subject)


\* the position in RunDays of the day at which the scan of the obligation
\* that is next starts
ScanStart(r) == (r.day_index % Len(RunDays(r))) + 1

\* the position of a day in RunDays
DayPosition(r, day) == CHOOSE k \in 1..Len(RunDays(r)) : RunDays(r)[k] = day

\* C24 as stated: within an attempt the scan for the k-th obligation
\* (counting from 0) starts at day index k mod D.
C24_DayCursor ==
    (run.pc = "attempt" /\ run.i < Len(run.all_assignments)) =>
        ScanStart(run) = (run.i % Len(RunDays(run))) + 1

\* C24 amended: within an attempt the cursor starts at 0, is never behind the
\* number of placed obligations, and the scan for the next obligation starts
\* at the day after the day of the last placement, wrapping; with a single
\* group no day is skipped, so the cursor equals the number of placements.
C24_DayCursorFollowsPlacement ==
    run.pc = "attempt" =>
        /\ run.i = 0 => run.day_index = 0
        /\ run.day_index >= run.i
        /\ run.i > 0 =>
              ScanStart(run) =
                  (DayPosition(run, run.matrix[run.i].key[1]) % Len(RunDays(run))) + 1
        /\ Len(run.args.groups) = 1 => run.day_index = run.i

\* a day was skipped for a placed obligation, and another obligation follows
C24_Witness ==
    /\ run.pc = "attempt"
    /\ run.i < Len(run.all_assignments)
    /\ run.day_index > run.i
    /\ ScanStart(run) # (run.i % Len(RunDays(run))) + 1


\* the number of placements of the matrix on a day
PlacedOn(r, day) == Cardinality({k \in 1..Len(r.matrix) : r.matrix[k].key[1] = day})

\* the followed call has one group and its search has succeeded
SingleGroupSuccess == run.pc \in {"success", "persisted"} /\ Len(run.args.groups) = 1

\* C25: after a successful attempt for a single group, the numbers of
\* obligations placed on any two candidate days differ by at most one.
C25_EvenSpread ==
    SingleGroupSuccess =>
        \A d1, d2 \in run.all_days : PlacedOn(run, d1) <= PlacedOn(run, d2) + 1

\* three obligations of one group spread 2-1 over two days
C25_Witness ==
    /\ SingleGroupSuccess
    /\ Len(run.matrix) = 3
    /\ Cardinality(run.all_days) = 2
    /\ \E d1, d2 \in run.all_days : PlacedOn(run, d1) = 2 /\ PlacedOn(run, d2) = 1


\* the obligation passes _can_assign on a (day, slot) pair of the pool
Passes(r, matrix, assignment, day, time_slot) ==
    /\ day \in r.all_days
    /\ time_slot \in r.all_time_slots
    /\ _can_assign(matrix, assignment.subject, assignment.group, day, time_slot)

\* how many days after the start of the scan a day is looked at
ScanDistance(r, day) ==
    (DayPosition(r, day) + Len(RunDays(r)) - ScanStart(r)) % Len(RunDays(r))

\* the slot is the first passing slot of the first day with a passing slot
FirstFit(r, assignment, day, time_slot) ==
    /\ Passes(r, r.matrix, assignment, day, time_slot)
    /\ \A t \in r.all_time_slots :
          Passes(r, r.matrix, assignment, day, t) =>
              IF r.args.prefer_morning THEN time_slot <= t ELSE time_slot >= t
    /\ \A d \in r.all_days : \A t \in r.all_time_slots :
          Passes(r, r.matrix, assignment, d, t) =>
              ScanDistance(r, day) <= ScanDistance(r, d)

\* C26: an obligation is placed on the first slot, in the sorted order of
\* the day being scanned, that passes _can_assign: the lowest-numbered
\* passing slot with prefer_morning and the highest-numbered without, and
\* never on a later day when a day scanned earlier has a passing slot.
C26_FirstFit ==
    [][(run.pc = "attempt" /\ run'.pc = "attempt" /\ run'.i = run.i + 1) =>
          /\ Len(run'.matrix) = Len(run.matrix) + 1
          /\ SubSeq(run'.matrix, 1, Len(run.matrix)) = run.matrix
          /\ LET placed == run'.matrix[Len(run'.matrix)]
                 assignment == run.all_assignments[run.i + 1]
             IN /\ placed.subject = assignment.subject
                /\ placed.group = assignment.group
                /\ placed.key[3] = BOTH
                /\ FirstFit(run, assignment, placed.key[1], placed.key[2])]_vars

\* the matrix before the last placement
BeforeLast(r) == [r EXCEPT !.matrix = SubSeq(r.matrix, 1, Len(r.matrix) - 1)]

\* without prefer_morning the last placement went to a lower slot of its
\* day because a higher slot of the day was refused
C26_Witness ==
    /\ run.pc = "attempt"
    /\ run.i >= 1
    /\ ~run.args.prefer_morning
    /\ LET placed == run.matrix[run.i]
           assignment == run.all_assignments[run.i]
       IN \E t \in run.all_time_slots :
              /\ t > placed.key[2]
              /\ ~Passes(run, BeforeLast(run).matrix, assignment, placed.key[1], t)

\* no (day, slot) pair of the pool passes _can_assign for the obligation
\* that is next
NothingPasses(r) ==
    \A d \in r.all_days : \A t \in r.all_time_slots :
        ~Passes(r, r.matrix, r.all_assignments[r.i + 1], d, t)

\* C27: the scan of an obligation looks at every candidate day at most once
\* from the cursor on; the attempt fails at the obligation exactly if no pair
\* of the whole pool passes _can_assign at that moment, every pair having
\* been refused once, and the attempt then stops: no later obligation is
\* examined and nothing more is placed.
C27_DayScanComplete ==
    [][/\ (run.pc = "attempt" /\ run.i < Len(run.all_assignments)) =>
            /\ run'.pc = "failed" <=> NothingPasses(run)
            /\ run'.pc = "attempt" <=> ~NothingPasses(run)
            /\ run'.pc = "failed" =>
                  /\ run'.i = run.i
                  /\ run'.matrix = run.matrix
                  /\ run'.conflicts_log = run.conflicts_log + Len(run.all_slots)
            /\ run'.pc = "attempt" =>
                  /\ run'.i = run.i + 1
                  /\ run'.day_index - run.day_index \in 1..Len(RunDays(run))
       /\ run.pc = "failed" =>
            /\ run'.pc \in {"loop", "exhausted"}
            /\ run'.i = run.i
            /\ run'.matrix = run.matrix]_vars

\* an attempt has failed at an obligation after placing others and with
\* later obligations left
C27_Witness ==
    /\ run.pc = "failed"
    /\ run.i >= 1
    /\ run.i + 1 < Len(run.all_assignments)
    /\ Len(RunDays(run)) = NumDays


\* the time slots whose start time lies between two times, bounds included
StartsWithin(start_time, end_time) ==
    {t \in SlotIds : start_time <= StartTime(t) /\ StartTime(t) <= end_time}

PresetNames == {"morning", "mixed", "afternoon", "evening", "full"}

\* C28: the candidate time slots are exactly those whose start time lies in
\* the resolved window, bounds included: the custom start and end when both
\* are given, whatever the preset; else the named preset; else every slot.
C28_TimeWindow ==
    run.pc # "idle" =>
        LET a == run.args
            custom == a.custom_start_time # NoTime /\ a.custom_end_time # NoTime
        IN /\ custom => run.all_time_slots =
                            StartsWithin(a.custom_start_time, a.custom_end_time)
           /\ (~custom /\ a.time_range \in PresetNames) =>
                  run.all_time_slots = StartsWithin(TIME_RANGES[a.time_range][1],
                                                    TIME_RANGES[a.time_range][2])
           /\ (~custom /\ a.time_range \notin PresetNames) => run.all_time_slots = SlotIds
           /\ run.pc = "empty" <=> (run.all_time_slots = {} \/ run.all_days = {})
           /\ run.pc # "empty" =>
                  {run.all_slots[k][2] : k \in 1..Len(run.all_slots)} = run.all_time_slots

\* a custom window that ends on the start time of the last slot it keeps,
\* given together with a preset that keeps no slot, has been searched
C28_Witness ==
    /\ run.pc = "success"
    /\ run.args.time_range = "mixed"
    /\ run.args.custom_start_time = 500
    /\ run.args.custom_end_time = StartTime(2)
    /\ run.all_time_slots = {2}
    /\ Len(run.matrix) = 1 /\ run.matrix[1].key[2] = 2


\* the placements of a matrix as row keys
Placements(matrix) ==
    {<<matrix[k].subject, matrix[k].key[1], matrix[k].key[2], matrix[k].key[3]>> :
        k \in 1..Len(matrix)}

\* C29: every attempt starts from an empty matrix; during an attempt the
\* matrix holds one entry for each obligation placed so far in this attempt,
\* in the order of the list as it is in this attempt, and nothing of an
\* earlier attempt; and the rows written after success are exactly the
\* placements of the successful attempt, each with the one group.
C29_MatrixPerAttempt ==
    /\ InAttempt =>
          /\ Len(run.matrix) = run.i
          /\ \A k \in 1..run.i :
                /\ run.matrix[k].subject = run.all_assignments[k].subject
                /\ run.matrix[k].group = run.all_assignments[k].group
    /\ run.pc = "success" => run.i = Len(run.all_assignments)
    /\ run.pc = "persisted" =>
          /\ Cardinality(Pks(store)) = Len(run.matrix)
          /\ {RowKey(store[p]) : p \in Pks(store)} = Placements(run.matrix)
          /\ \A p \in Pks(store) : store[p].groups = {run.args.groups[1]}

\* an attempt after a failed one has succeeded, with more than one placement
C29_Witness ==
    /\ run.pc = "success"
    /\ run.attempt >= 1
    /\ run.conflicts_log > 0
    /\ Len(run.matrix) >= 3


\* C30: when all obligations belong to a single group, an attempt succeeds
\* exactly if the number of obligations is at most the number of (day, slot)
\* pairs of the pool, whatever the order of the list: a first attempt that
\* fails is followed by failures only, each at the obligation after the pool
\* is full, and a success is the success of the first attempt.
C30_OrderIndependence ==
    Len(run.args.groups) = 1 =>
        /\ run.pc \in {"success", "persisted"} =>
              (Len(run.all_assignments) <= Len(run.all_slots) /\ run.attempt = 0)
        /\ run.pc \in {"failed", "exhausted"} =>
              (Len(run.all_assignments) > Len(run.all_slots) /\ run.i = Len(run.all_slots))
        /\ (run.pc = "attempt" /\ Len(run.all_assignments) <= Len(run.all_slots)) =>
              run.attempt = 0

\* every attempt of a single-group run has failed, the list having been
\* shuffled before each retry
C30_Witness ==
    /\ Len(run.args.groups) = 1
    /\ run.pc = "exhausted"
    /\ run.attempt = MaxAttemptsArg
    /\ Len(run.all_assignments) = 3
    /\ run.all_assignments # AllAssignments(run.args.groups, run.args.subjects_per_group)
    /\ Len(run.all_slots) = 2


====
